---- MODULE Spec2Model ----
(***************************************************************************)
(* A model of excel_to_json_converter.py: the name normaliser, the vendor  *)
(* mapping, the inventory and sales aggregators, the metrics engine and    *)
(* the document assembler.                                                 *)
(*                                                                         *)
(* Text is a sequence of one-character strings, so that lower(), strip(),  *)
(* the separator regex, endswith() and slicing are computed character by   *)
(* character.  A cell that holds no text (pandas reads an empty cell as    *)
(* NaN even under dtype=str) is the value NaN.                             *)
(***************************************************************************)
EXTENDS Integers, Sequences, FiniteSets, TLC

VARIABLES
    npc,            \* SpecNorm: "input" | "normalized" | "renormalized"
    name,           \* SpecNorm: the argument of normalize_name
    key,            \* SpecNorm: normalize_name(name)
    key2,           \* SpecNorm: normalize_name(key)
    stripped,       \* SpecNorm: indices (into suffixes) the for loop removed, in order
    pc,             \* where main() and the loader it runs stand
    mapping,        \* main: the vendor mapping (normalized vendor -> brand)
    cols,           \* the columns the running loader resolved
    row,            \* the row the running loader's loop holds
    nread,          \* rows read so far in this run
    inventory_data, \* brand -> <<total_cost, total_qty>>
    revenue_map,    \* brand -> net sales
    units_map,      \* brand -> quantity sold
    category_revenue, \* brand -> (category -> revenue)
    brand_data,     \* compute_metrics' result
    json_data,      \* build_json's result
    sales_paths     \* SpecSales: the list of sales sources given to load_sales

normVars == <<npc, name, key, key2, stripped>>

mainVars == <<pc, mapping, cols, row, nread, inventory_data, revenue_map,
              units_map, category_revenue, brand_data, json_data, sales_paths>>

vars == <<normVars, mainVars>>

----------------------------------------------------------------------------
(* Text helpers *)

\* pandas' NaN: an empty cell, or what pd.to_numeric(errors='coerce') makes
\* of text that is no number
NaN == <<"NaN">>

\* Python's None: what row.get(col) and cols.get(label) give for a missing key
None == <<"None">>

\* isinstance(v, str)
IsStr(v) == v # NaN /\ v # None

\* pd.isna(v)
IsNa(v) == v = NaN \/ v = None

\* a numeric cell: what pd.to_numeric makes of text that is a number.  The
\* amounts are integers far below 2^53, which Python's floats hold and add
\* exactly, so float arithmetic on them is integer arithmetic.
Num(x) == <<"float", x>>

\* float(cell)
Float(cell) == cell[2]

Upper == <<"A","B","C","D","E","F","G","H","I","J","K","L","M",
           "N","O","P","Q","R","S","T","U","V","W","X","Y","Z">>

LowerCase == <<"a","b","c","d","e","f","g","h","i","j","k","l","m",
               "n","o","p","q","r","s","t","u","v","w","x","y","z">>

\* str.lower() on one character
LowerChar(c) ==
    IF \E i \in 1..Len(Upper) : Upper[i] = c
    THEN LowerCase[CHOOSE i \in 1..Len(Upper) : Upper[i] = c]
    ELSE c

\* str.lower()
Lower(s) == [i \in 1..Len(s) |-> LowerChar(s[i])]

\* \s of the regex and of str.strip()
Whitespace == {" "}

\* the character class [\s\-\.,] of line 51
Separators == Whitespace \cup {"-", ".", ","}

RECURSIVE LStrip(_)
LStrip(s) ==
    IF s # <<>> /\ Head(s) \in Whitespace THEN LStrip(Tail(s)) ELSE s

RECURSIVE RStrip(_)
RStrip(s) ==
    IF s # <<>> /\ s[Len(s)] \in Whitespace
    THEN RStrip(SubSeq(s, 1, Len(s) - 1))
    ELSE s

\* str.strip()
Strip(s) == RStrip(LStrip(s))

\* re.sub(r"[\s\-\.,]+", "", name)
RECURSIVE RemoveSeparators(_)
RemoveSeparators(s) ==
    IF s = <<>> THEN <<>>
    ELSE IF Head(s) \in Separators THEN RemoveSeparators(Tail(s))
    ELSE <<Head(s)>> \o RemoveSeparators(Tail(s))

\* str.endswith(suf)
EndsWith(s, suf) ==
    /\ Len(suf) <= Len(s)
    /\ SubSeq(s, Len(s) - Len(suf) + 1, Len(s)) = suf

\* name[: -len(suf)]
DropLast(s, n) == SubSeq(s, 1, Len(s) - n)

----------------------------------------------------------------------------
(* normalize_name *)

suffixes == <<
    <<"l","l","c">>,
    <<"i","n","c">>,
    <<"i","n","c","o","r","p","o","r","a","t","e","d">>,
    <<"c","o","r","p">>,
    <<"c","o","r","p","o","r","a","t","i","o","n">>,
    <<"c","o","m","p","a","n","y">>,
    <<"c","o">>,
    <<"d","b","a">>,
    <<"l","i","m","i","t","e","d">>,
    <<"l","t","d">>,
    <<"p","l","l","c">>,
    <<"p","l","c">>,
    <<"g","r","o","u","p">>,
    <<"h","o","l","d","i","n","g","s">>,
    <<"f","a","r","m","s">>,
    <<"f","a","r","m">> >>

\* A loop that leaves at the first suffix it removes (a `break` after line 58).
RECURSIVE SuffixLoopBreak(_, _, _)
SuffixLoopBreak(s, i, log) ==
    IF i > Len(suffixes) THEN [name |-> s, stripped |-> log]
    ELSE IF EndsWith(s, suffixes[i])
         THEN [name |-> DropLast(s, Len(suffixes[i])), stripped |-> Append(log, i)]
         ELSE SuffixLoopBreak(s, i + 1, log)

\* The for loop of lines 56-58 from suffix i on: the name it leaves and the
\* indices of the suffixes it removed.
RECURSIVE SuffixLoop(_, _, _)
SuffixLoop(s, i, log) ==
    IF i > Len(suffixes) THEN [name |-> s, stripped |-> log]
    ELSE IF EndsWith(s, suffixes[i])
         THEN SuffixLoop(DropLast(s, Len(suffixes[i])), i + 1, Append(log, i))
         ELSE SuffixLoop(s, i + 1, log)

\* lines 49-51
Clean(s) == RemoveSeparators(Strip(Lower(s)))

\* lines 60-61
StripTrailingS(s) == IF EndsWith(s, <<"s">>) THEN DropLast(s, 1) ELSE s

normalize_name(v) ==
    IF ~IsStr(v) THEN <<>>
    ELSE StripTrailingS(SuffixLoop(Clean(v), 1, <<>>).name)

----------------------------------------------------------------------------
(* Dictionaries: a Python dict is a function on its keys *)

EmptyDict == <<>>

\* d.get(k, default)
Get(d, k, default) == IF k \in DOMAIN d THEN d[k] ELSE default

\* d[k] = v
Put(d, k, v) == [x \in (DOMAIN d) \cup {k} |-> IF x = k THEN v ELSE d[x]]

\* sum(d.values()): the amounts of the model are integers far below 2^53,
\* which Python's floats hold and add exactly, so float addition is integer
\* addition here and the order of the additions does not show.
RECURSIVE SumValues(_)
SumValues(d) ==
    IF DOMAIN d = {} THEN 0
    ELSE LET k == CHOOSE x \in DOMAIN d : TRUE
         IN  d[k] + SumValues([x \in (DOMAIN d) \ {k} |-> d[x]])

----------------------------------------------------------------------------
(* Quotients: a / b is kept as the exact fraction <<num, den>>, den > 0, in
   lowest terms *)

Abs(x) == IF x < 0 THEN -x ELSE x

RECURSIVE GCD(_, _)
GCD(a, b) == IF b = 0 THEN a ELSE GCD(b, a % b)

\* n / d for integers n and d # 0
Ratio(n, d) ==
    LET g == GCD(Abs(n), Abs(d))
        sgn == IF d < 0 THEN -1 ELSE 1
    IN  <<sgn * (n \div g), sgn * (d \div g)>>

Zero == <<0, 1>>

One == <<1, 1>>

RatAdd(p, q) == Ratio(p[1] * q[2] + q[1] * p[2], p[2] * q[2])

\* p / q for q # 0
RatDiv(p, q) == Ratio(p[1] * q[2], p[2] * q[1])

\* p * k for an integer k
RatScale(p, k) == Ratio(p[1] * k, p[2])

RatLeq(p, q) == p[1] * q[2] <= q[1] * p[2]

RatPositive(p) == p[1] > 0

\* sum(d.values()) of a dict of quotients
RECURSIVE RatSumValues(_)
RatSumValues(d) ==
    IF DOMAIN d = {} THEN Zero
    ELSE LET k == CHOOSE x \in DOMAIN d : TRUE
         IN  RatAdd(d[k], RatSumValues([x \in (DOMAIN d) \ {k} |-> d[x]]))

----------------------------------------------------------------------------
(* Column labels and their resolution *)

L_vendor_name == <<"v","e","n","d","o","r"," ","n","a","m","e">>

L_vendor == <<"v","e","n","d","o","r">>

L_quantity == <<"q","u","a","n","t","i","t","y">>

L_qty == <<"q","t","y">>

L_quantity_received == <<"q","u","a","n","t","i","t","y"," ","r","e","c","e","i","v","e","d">>

L_inventory_cost == <<"i","n","v","e","n","t","o","r","y"," ","c","o","s","t">>

L_cost == <<"c","o","s","t">>

L_inventory_cost_usd == <<"i","n","v","e","n","t","o","r","y"," ","c","o","s","t"," ","(","$",")">>

L_brand_name == <<"b","r","a","n","d"," ","n","a","m","e">>

L_brand == <<"b","r","a","n","d">>

L_category == <<"c","a","t","e","g","o","r","y">>

L_quantity_sold == <<"q","u","a","n","t","i","t","y"," ","s","o","l","d">>

L_units_sold == <<"u","n","i","t","s"," ","s","o","l","d">>

L_net_sales == <<"n","e","t"," ","s","a","l","e","s">>

L_revenue == <<"r","e","v","e","n","u","e">>

\* A header cell that holds a number: pandas keeps it as an int label, and
\* c.lower() raises AttributeError on it.
NumberLabel == <<"2025">>

\* every c.lower() of the dict comprehension succeeds
AllTextLabels(columns) == \A i \in 1..Len(columns) : columns[i] # NumberLabel

\* cols.get(label) for cols = {c.lower(): c for c in columns}: the last column
\* whose lowercased label is `label`
ColsGet(columns, label) ==
    LET hits == {i \in 1..Len(columns) : Lower(columns[i]) = label}
    IN  IF hits = {} THEN None
        ELSE columns[CHOOSE i \in hits : \A j \in hits : j <= i]

\* a or b, for labels
Or(a, b) == IF a # None /\ a # <<>> THEN a ELSE b

\* not col
Missing(col) == col = None \/ col = <<>>

\* row.get(col): the cell of the row under col, None when col is None
RowGet(col, cell) == IF col = None THEN None ELSE cell

----------------------------------------------------------------------------
(* load_vendor_mapping *)

\* sub in s
Contains(s, sub) ==
    \E i \in 1..(Len(s) - Len(sub) + 1) : SubSeq(s, i, i + Len(sub) - 1) = sub

\* the loop of lines 81-86 for one of the two words: the index of the first
\* column whose lowercased label contains it, 0 when there is none
FirstColumnWith(columns, word) ==
    LET hits == {i \in 1..Len(columns) : Contains(Lower(columns[i]), word)}
    IN  IF hits = {} THEN 0 ELSE CHOOSE i \in hits : \A j \in hits : i <= j

\* str(cell): the text of a cell, "nan" for an empty one
Str(cell) == IF cell = NaN THEN <<"n","a","n">> ELSE cell

\* lines 89-94 from row i on
RECURSIVE MappingRows(_, _, _, _, _)
MappingRows(rows, i, vendor_col, brand_col, m) ==
    IF i > Len(rows) THEN m
    ELSE LET vendor == Strip(Str(rows[i][vendor_col]))
             brand  == Strip(Str(rows[i][brand_col]))
         IN  MappingRows(rows, i + 1, vendor_col, brand_col,
                         IF vendor # <<>> /\ brand # <<>>
                         THEN Put(m, normalize_name(vendor), brand)
                         ELSE m)

\* csv is the file at csv_path: whether it exists, whether pd.read_csv reads
\* it, its column labels and its rows (one cell per column)
load_vendor_mapping(csv) ==
    IF ~csv.exists THEN EmptyDict
    ELSE IF ~csv.readable THEN EmptyDict
    ELSE IF ~AllTextLabels(csv.columns) THEN EmptyDict
    ELSE LET vendor_col == FirstColumnWith(csv.columns, L_vendor)
             brand_col  == FirstColumnWith(csv.columns, L_brand)
         IN  IF vendor_col = 0 \/ brand_col = 0 THEN EmptyDict
             ELSE MappingRows(csv.rows, 1, vendor_col, brand_col, EmptyDict)

----------------------------------------------------------------------------
(* load_inventory *)

\* lines 114-117
ResolveInventory(columns) ==
    [vendor |-> Or(ColsGet(columns, L_vendor_name), ColsGet(columns, L_vendor)),
     qty    |-> Or(Or(ColsGet(columns, L_quantity), ColsGet(columns, L_qty)),
                   ColsGet(columns, L_quantity_received)),
     cost   |-> Or(Or(ColsGet(columns, L_inventory_cost), ColsGet(columns, L_cost)),
                   ColsGet(columns, L_inventory_cost_usd))]

\* mapping.get(vendor, vendor): the raw text looked up, not its normalized key
CanonicalRaw(m, text) == Get(m, text, text)

\* mapping.get(normalize_name(vendor), vendor) of lines 128 and 172
Canonical(m, text) == Get(m, normalize_name(text), text)

\* lines 124-133: one row of the loop; r holds the row's cells under the
\* resolved columns, the numeric ones after pd.to_numeric
InventoryRowStep(inv, r, m) ==
    IF IsStr(r.vendor) /\ ~IsNa(r.qty) /\ ~IsNa(r.cost)
    THEN LET brand_canonical == Canonical(m, r.vendor)
             totals == Get(inv, brand_canonical, <<0, 0>>)
         IN  Put(inv, brand_canonical,
                 <<totals[1] + Float(r.cost), totals[2] + Float(r.qty)>>)
    ELSE inv

----------------------------------------------------------------------------
(* load_sales *)

\* lines 156-160
ResolveSales(columns) ==
    [brand    |-> Or(ColsGet(columns, L_brand_name), ColsGet(columns, L_brand)),
     category |-> ColsGet(columns, L_category),
     qty      |-> Or(Or(ColsGet(columns, L_quantity_sold), ColsGet(columns, L_units_sold)),
                     ColsGet(columns, L_quantity)),
     revenue  |-> Or(ColsGet(columns, L_net_sales), ColsGet(columns, L_revenue))]

NoSales ==
    [revenue_map |-> EmptyDict, units_map |-> EmptyDict, category_revenue |-> EmptyDict]

\* lines 167-177: one row of the loop; c are the resolved columns, cells the
\* row's cells in the brand, category, quantity and revenue columns
SalesRowStep(agg, c, cells, m) ==
    LET brand    == RowGet(c.brand, cells.brand)
        qty      == RowGet(c.qty, cells.qty)
        revenue  == RowGet(c.revenue, cells.revenue)
        category == RowGet(c.category, cells.category)
    IN  IF IsStr(brand) /\ ~IsNa(qty) /\ ~IsNa(revenue)
        THEN LET brand_canonical == Canonical(m, brand)
                 category_dict == Get(agg.category_revenue, brand_canonical, EmptyDict)
             IN  [revenue_map |->
                      Put(agg.revenue_map, brand_canonical,
                          Get(agg.revenue_map, brand_canonical, 0) + Float(revenue)),
                  units_map |->
                      Put(agg.units_map, brand_canonical,
                          Get(agg.units_map, brand_canonical, 0) + Float(qty)),
                  category_revenue |->
                      IF IsStr(category)
                      THEN Put(agg.category_revenue, brand_canonical,
                               Put(category_dict, category,
                                   Get(category_dict, category, 0) + Float(revenue)))
                      ELSE agg.category_revenue]
        ELSE agg

\* lines 166-177 from row i on
RECURSIVE SalesRows(_, _, _, _, _)
SalesRows(agg, c, rows, i, m) ==
    IF i > Len(rows) THEN agg
    ELSE SalesRows(SalesRowStep(agg, c, rows[i], m), c, rows, i + 1, m)

\* what makes a source leave the try block of lines 153-179 by an exception:
\* pd.read_excel raises, or a header cell is no text and c.lower() raises.
\* Both happen before the row loop; nothing in the loop raises on the cells
\* pandas hands it (text or NaN, and floats after pd.to_numeric).
SourceRaises(src) == ~src.readable \/ ~AllTextLabels(src.columns)

\* a source that load_sales skips: missing, or raising
SourceFails(src) == ~src.exists \/ SourceRaises(src)

\* lines 151-179: one turn of the loop over sales_paths
SalesSource(agg, src, m) ==
    IF ~src.exists THEN agg
    ELSE IF SourceRaises(src) THEN agg
    ELSE SalesRows(agg, ResolveSales(src.columns), src.rows, 1, m)

\* a loop that a raising source ends: `break` for the `continue` of line 179
RECURSIVE SalesLoopAbort(_, _, _, _)
SalesLoopAbort(agg, paths, i, m) ==
    IF i > Len(paths) THEN agg
    ELSE IF paths[i].exists /\ SourceRaises(paths[i]) THEN agg
    ELSE SalesLoopAbort(SalesSource(agg, paths[i], m), paths, i + 1, m)

\* a loop whose aggregates start afresh with every source
RECURSIVE SalesLoopReset(_, _, _, _)
SalesLoopReset(agg, paths, i, m) ==
    IF i > Len(paths) THEN agg
    ELSE SalesLoopReset(SalesSource(NoSales, paths[i], m), paths, i + 1, m)

\* lines 150-179 from source i on
RECURSIVE SalesLoop(_, _, _, _)
SalesLoop(agg, paths, i, m) ==
    IF i > Len(paths) THEN agg
    ELSE SalesLoop(SalesSource(agg, paths[i], m), paths, i + 1, m)

load_sales(paths, m) == SalesLoop(NoSales, paths, 1, m)

----------------------------------------------------------------------------
(* compute_metrics *)

\* lines 192-195: the brands with a positive quantity, and their average cost
Costs(inventory) ==
    [b \in {x \in DOMAIN inventory : inventory[x][2] > 0} |->
        Ratio(inventory[b][1], inventory[b][2])]

\* line 197
OverallAvgCost(costs) ==
    IF DOMAIN costs # {}
    THEN RatDiv(RatSumValues(costs), <<Cardinality(DOMAIN costs), 1>>)
    ELSE None

\* an average taken whenever the quantity is not zero
AvgUnitCostNonzero(total_cost, total_qty) ==
    IF total_qty # 0 THEN Ratio(total_cost, total_qty) ELSE None

\* lines 205-207
AvgUnitCost(total_cost, total_qty) ==
    IF total_qty > 0 THEN Ratio(total_cost, total_qty) ELSE None

\* lines 209-213
PpiIndex(avg_unit_cost, overall_avg_cost) ==
    IF avg_unit_cost # None /\ overall_avg_cost # None /\ overall_avg_cost # Zero
       /\ RatPositive(overall_avg_cost)
    THEN RatScale(RatDiv(avg_unit_cost, overall_avg_cost), 100)
    ELSE Zero

\* lines 215-219
SellThrough(units_sold, units_received) ==
    IF units_received + units_sold > 0
    THEN Ratio(units_sold, units_sold + units_received)
    ELSE Zero

\* a mix computed for every total that is not zero
CategoryMixNonzero(cat_rev) ==
    LET cat_total == SumValues(cat_rev)
    IN  IF cat_total # 0
        THEN [cat \in DOMAIN cat_rev |-> Ratio(cat_rev[cat], cat_total)]
        ELSE EmptyDict

\* lines 221-226
CategoryMix(cat_rev) ==
    LET cat_total == SumValues(cat_rev)
    IN  IF cat_total > 0
        THEN [cat \in DOMAIN cat_rev |-> Ratio(cat_rev[cat], cat_total)]
        ELSE EmptyDict

\* line 199, taken over the sales aggregates only
SalesBrands(inventory, revenue, units) == (DOMAIN revenue) \cup (DOMAIN units)

\* line 199
AllBrands(inventory, revenue, units) ==
    (DOMAIN revenue) \cup (DOMAIN units) \cup (DOMAIN inventory)

compute_metrics(inventory, revenue, units, cat_revenue) ==
    LET overall_avg_cost == OverallAvgCost(Costs(inventory))
    IN  [brand \in AllBrands(inventory, revenue, units) |->
            LET totals == Get(inventory, brand, <<0, 0>>)
                units_sold == Get(units, brand, 0)
                avg_unit_cost == AvgUnitCost(totals[1], totals[2])
            IN  [brand            |-> brand,
                 revenue          |-> Get(revenue, brand, 0),
                 units            |-> units_sold,
                 avg_unit_cost    |-> avg_unit_cost,
                 ppi_index        |-> PpiIndex(avg_unit_cost, overall_avg_cost),
                 sell_through_pct |-> SellThrough(units_sold, totals[2]),
                 category_mix     |-> CategoryMix(Get(cat_revenue, brand, EmptyDict)),
                 history          |-> <<>>]]

----------------------------------------------------------------------------
(* build_json *)

\* sum(b[field] for b in brand_data.values())
RECURSIVE SumField(_, _)
SumField(records, field) ==
    IF DOMAIN records = {} THEN 0
    ELSE LET k == CHOOSE x \in DOMAIN records : TRUE
         IN  records[k][field] + SumField([x \in (DOMAIN records) \ {k} |-> records[x]], field)

\* line 253
RevenueShare(revenue, total_revenue) ==
    IF total_revenue > 0 THEN Ratio(revenue, total_revenue) ELSE Zero

\* lines 251-254: every record gets its revenue_share; the records are those
\* of brand_data itself
WithShares(records) ==
    LET total_revenue == SumField(records, "revenue")
    IN  [b \in DOMAIN records |->
            [brand            |-> records[b].brand,
             revenue          |-> records[b].revenue,
             units            |-> records[b].units,
             avg_unit_cost    |-> records[b].avg_unit_cost,
             ppi_index        |-> records[b].ppi_index,
             sell_through_pct |-> records[b].sell_through_pct,
             category_mix     |-> records[b].category_mix,
             history          |-> records[b].history,
             revenue_share    |-> RevenueShare(records[b].revenue, total_revenue)]]

\* lines 257-259: the lists the stable sort by revenue, descending, can leave.
\* brand_data is filled in the iteration order of the set all_brands, which
\* Python does not fix, so brands of equal revenue come in any order.
SortedBrandLists(records) ==
    {l \in [1..Cardinality(DOMAIN records) -> DOMAIN records] :
        /\ \A i, j \in DOMAIN l : i # j => l[i] # l[j]
        /\ \A i, j \in DOMAIN l : i < j => records[l[i]].revenue >= records[l[j]].revenue}

\* lines 260-274, for one of those lists
Document(records, order, as_of, notes, geography, currency) ==
    [meta  |-> [title     |-> "Brand PPI + Sell-Through + Revenue CRM",
                as_of     |-> as_of,
                currency  |-> currency,
                geography |-> geography,
                notes     |-> notes],
     kpis  |-> [total_revenue |-> SumField(records, "revenue"),
                total_units   |-> SumField(records, "units")],
     brands |-> [i \in DOMAIN order |-> records[order[i]]]]

----------------------------------------------------------------------------
(* The files and cells the runs draw from *)

AcmeFarmLLC == <<"A","c","m","e"," ","F","a","r","m"," ","L","L","C">>

AcmeIndustries == <<"A","c","m","e"," ","I","n","d","u","s","t","r","i","e","s">>

AcmeFarmKey == <<"a","c","m","e","f","a","r","m">>

Beta == <<"B","e","t","a">>

PaddedAcmeIndustries == <<" ","A","c","m","e"," ","I","n","d","u","s","t","r","i","e","s"," ">>

PaddedAcmeFarmKey == <<" ","a","c","m","e","f","a","r","m"," ">>

Flower == <<"F","l","o","w","e","r">>

Edible == <<"E","d","i","b","l","e">>

H_Vendor == <<"V","e","n","d","o","r">>

H_Brand == <<"B","r","a","n","d">>

H_VendorName == <<"V","e","n","d","o","r"," ","N","a","m","e">>

H_BrandName == <<"B","r","a","n","d"," ","N","a","m","e">>

H_Quantity == <<"Q","u","a","n","t","i","t","y">>

H_InventoryCost == <<"I","n","v","e","n","t","o","r","y"," ","C","o","s","t">>

H_Category == <<"C","a","t","e","g","o","r","y">>

H_QuantitySold == <<"Q","u","a","n","t","i","t","y"," ","S","o","l","d">>

H_NetSales == <<"N","e","t"," ","S","a","l","e","s">>

H_UnitsSold == <<"U","n","i","t","s"," ","S","o","l","d">>

H_Revenue == <<"R","E","V","E","N","U","E">>

File(exists, readable, columns, rows) ==
    [exists |-> exists, readable |-> readable, columns |-> columns, rows |-> rows]

\* no file at the path (or no path given)
MissingFile == File(FALSE, FALSE, <<>>, <<>>)

\* a file the reader raises on
UnreadableFile == File(TRUE, FALSE, <<>>, <<>>)

AcmeMapFile ==
    File(TRUE, TRUE, <<H_Vendor, H_Brand>>, << <<AcmeFarmKey, AcmeIndustries>> >>)

\* the same mapping from a file whose brand column comes first, whose cells
\* are padded, and whose second row has blank cells
PaddedAcmeMapFile ==
    File(TRUE, TRUE, <<H_BrandName, H_VendorName>>,
         << <<PaddedAcmeIndustries, PaddedAcmeFarmKey>>, <<<<" ">>, NaN>> >>)

NoBrandMapFile == File(TRUE, TRUE, <<H_Vendor>>, << <<AcmeFarmKey>> >>)

NumberLabelMapFile ==
    File(TRUE, TRUE, <<H_Vendor, NumberLabel, H_Brand>>,
         << <<AcmeFarmKey, NaN, AcmeIndustries>> >>)

MapFiles ==
    {MissingFile, UnreadableFile, AcmeMapFile, PaddedAcmeMapFile, NoBrandMapFile,
     NumberLabelMapFile}

\* the mapping the scenario of the vendor "Acme Farm LLC" names
AcmeMap == load_vendor_mapping(AcmeMapFile)

InventoryHeaders ==
    {<<H_VendorName, H_Quantity, H_InventoryCost>>,
     <<H_Vendor, H_Quantity>>,
     <<H_VendorName, NumberLabel, H_Quantity, H_InventoryCost>>}

SalesHeaders ==
    {<<H_BrandName, H_Category, H_QuantitySold, H_NetSales>>,
     <<H_Brand, H_UnitsSold, H_Revenue>>,
     <<H_BrandName, H_Category, NumberLabel, H_QuantitySold, H_NetSales>>}

\* the cells of a vendor or brand column
NameCells == {AcmeFarmLLC, Beta, NaN}

\* the cells of the numeric columns after pd.to_numeric(errors='coerce')
InventoryQtyCells == {Num(-1), Num(0), Num(2), NaN}

InventoryCostCells == {Num(3), NaN}

SalesQtyCells == {Num(-1), Num(1), NaN}

RevenueCells == {Num(-1), Num(2), NaN}

CategoryCells == {Flower, Edible}

\* the cells a row can hold under column col
CellsUnder(col, cells) == IF col = None THEN {NaN} ELSE cells

----------------------------------------------------------------------------
(* Spec: main(), the loaders row by row *)

MaxRows == 2

Init ==
    /\ npc = "idle"
    /\ name = <<>>
    /\ key = <<>>
    /\ key2 = <<>>
    /\ stripped = <<>>
    /\ pc = "mapping"
    /\ mapping = EmptyDict
    /\ cols = None
    /\ row = None
    /\ nread = 0
    /\ inventory_data = EmptyDict
    /\ revenue_map = EmptyDict
    /\ units_map = EmptyDict
    /\ category_revenue = EmptyDict
    /\ brand_data = EmptyDict
    /\ json_data = None
    /\ sales_paths = <<>>

\* line 288
LoadVendorMapping ==
    /\ pc = "mapping"
    /\ \E csv \in MapFiles : mapping' = load_vendor_mapping(csv)
    /\ pc' = "inventory"
    /\ UNCHANGED normVars
    /\ UNCHANGED <<cols, row, nread, inventory_data, revenue_map, units_map,
                   category_revenue, brand_data, json_data, sales_paths>>

\* lines 108-119 and 134-135: load_inventory returns its empty aggregate when
\* the file is missing, pd.read_excel or c.lower() raises, or a column is not
\* found
InventoryEmpty ==
    /\ pc = "inventory"
    /\ \/ \E f \in {MissingFile, UnreadableFile} : TRUE
       \/ \E columns \in InventoryHeaders :
              \/ ~AllTextLabels(columns)
              \/ LET c == ResolveInventory(columns)
                 IN  Missing(c.vendor) \/ Missing(c.qty) \/ Missing(c.cost)
    /\ pc' = "sales"
    /\ UNCHANGED normVars
    /\ UNCHANGED <<mapping, cols, row, nread, inventory_data, revenue_map,
                   units_map, category_revenue, brand_data, json_data, sales_paths>>

\* lines 112-122: the file is read and its three columns are found
InventoryOpen ==
    /\ pc = "inventory"
    /\ \E columns \in InventoryHeaders :
           /\ AllTextLabels(columns)
           /\ LET c == ResolveInventory(columns)
              IN  /\ ~(Missing(c.vendor) \/ Missing(c.qty) \/ Missing(c.cost))
                  /\ cols' = c
    /\ pc' = "inventory_rows"
    /\ UNCHANGED normVars
    /\ UNCHANGED <<mapping, row, nread, inventory_data, revenue_map, units_map,
                   category_revenue, brand_data, json_data, sales_paths>>

\* lines 123-133: one row
InventoryRow ==
    /\ pc = "inventory_rows"
    /\ nread < MaxRows
    /\ \E vendor \in NameCells, qty \in InventoryQtyCells, cost \in InventoryCostCells :
           LET r == [vendor |-> vendor, qty |-> qty, cost |-> cost]
           IN  /\ row' = r
               /\ inventory_data' = InventoryRowStep(inventory_data, r, mapping)
    /\ nread' = nread + 1
    /\ UNCHANGED normVars
    /\ UNCHANGED <<pc, mapping, cols, revenue_map, units_map, category_revenue,
                   brand_data, json_data, sales_paths>>

\* line 136
InventoryReturn ==
    /\ pc = "inventory_rows"
    /\ pc' = "sales"
    /\ cols' = None
    /\ row' = None
    /\ UNCHANGED normVars
    /\ UNCHANGED <<mapping, nread, inventory_data, revenue_map, units_map,
                   category_revenue, brand_data, json_data, sales_paths>>

\* lines 151-152 and 178-179: a source that is missing, or on which
\* pd.read_excel or c.lower() raises, is passed over
SalesSkip ==
    /\ pc = "sales"
    /\ \/ \E f \in {MissingFile, UnreadableFile} : TRUE
       \/ \E columns \in SalesHeaders : ~AllTextLabels(columns)
    /\ UNCHANGED normVars
    /\ UNCHANGED <<pc, mapping, cols, row, nread, inventory_data, revenue_map,
                   units_map, category_revenue, brand_data, json_data, sales_paths>>

\* lines 154-165: the source is read and its columns are looked up
SalesOpen ==
    /\ pc = "sales"
    /\ \E columns \in SalesHeaders :
           /\ AllTextLabels(columns)
           /\ cols' = ResolveSales(columns)
    /\ pc' = "sales_rows"
    /\ UNCHANGED normVars
    /\ UNCHANGED <<mapping, row, nread, inventory_data, revenue_map, units_map,
                   category_revenue, brand_data, json_data, sales_paths>>

\* lines 166-177: one row
SalesRow ==
    /\ pc = "sales_rows"
    /\ nread < MaxRows
    /\ \E brand \in CellsUnder(cols.brand, NameCells),
          category \in CellsUnder(cols.category, CategoryCells),
          qty \in CellsUnder(cols.qty, SalesQtyCells),
          revenue \in CellsUnder(cols.revenue, RevenueCells) :
           LET cells == [brand |-> brand, category |-> category, qty |-> qty,
                         revenue |-> revenue]
               agg == SalesRowStep([revenue_map |-> revenue_map, units_map |-> units_map,
                                    category_revenue |-> category_revenue],
                                   cols, cells, mapping)
           IN  /\ row' = cells
               /\ revenue_map' = agg.revenue_map
               /\ units_map' = agg.units_map
               /\ category_revenue' = agg.category_revenue
    /\ nread' = nread + 1
    /\ UNCHANGED normVars
    /\ UNCHANGED <<pc, mapping, cols, inventory_data, brand_data, json_data,
                   sales_paths>>

\* the rows of the source are exhausted: the loop over sales_paths goes on
SalesNext ==
    /\ pc = "sales_rows"
    /\ pc' = "sales"
    /\ cols' = None
    /\ row' = None
    /\ UNCHANGED normVars
    /\ UNCHANGED <<mapping, nread, inventory_data, revenue_map, units_map,
                   category_revenue, brand_data, json_data, sales_paths>>

\* line 180: the loop over sales_paths is over
SalesReturn ==
    /\ pc = "sales"
    /\ pc' = "metrics"
    /\ UNCHANGED normVars
    /\ UNCHANGED <<mapping, cols, row, nread, inventory_data, revenue_map,
                   units_map, category_revenue, brand_data, json_data, sales_paths>>

\* line 291
ComputeMetrics ==
    /\ pc = "metrics"
    /\ brand_data' = compute_metrics(inventory_data, revenue_map, units_map,
                                     category_revenue)
    /\ pc' = "json"
    /\ UNCHANGED normVars
    /\ UNCHANGED <<mapping, cols, row, nread, inventory_data, revenue_map,
                   units_map, category_revenue, json_data, sales_paths>>

\* line 292: build_json, which also writes revenue_share into the records of
\* brand_data
BuildJson ==
    /\ pc = "json"
    /\ LET records == WithShares(brand_data)
       IN  /\ brand_data' = records
           /\ \E order \in SortedBrandLists(records) :
                  json_data' = Document(records, order, "YYYY-MM-DD", "",
                                        "NY Adult-Use", "USD")
    /\ pc' = "done"
    /\ UNCHANGED normVars
    /\ UNCHANGED <<mapping, cols, row, nread, inventory_data, revenue_map,
                   units_map, category_revenue, sales_paths>>

Next ==
    \/ LoadVendorMapping
    \/ InventoryEmpty
    \/ InventoryOpen
    \/ InventoryRow
    \/ InventoryReturn
    \/ SalesSkip
    \/ SalesOpen
    \/ SalesRow
    \/ SalesNext
    \/ SalesReturn
    \/ ComputeMetrics
    \/ BuildJson

Spec == Init /\ [][Next]_vars

----------------------------------------------------------------------------
(* Claims about the loaders' rows *)

\* the row passes the test of lines 127 and 171
Accepted(text, qty, amount) == IsStr(text) /\ ~IsNa(qty) /\ ~IsNa(amount)

\* the brand the claim names for the text v: mapping[normalize_name(v)] when
\* that key is in the mapping, v itself otherwise
ClaimedBrand(v) ==
    LET k == normalize_name(v)
    IN  IF k \in DOMAIN mapping THEN mapping[k] ELSE v

\* dict `new` is dict `old` with `total` under k and nothing else touched
AddedUnder(old, new, k, total) ==
    /\ DOMAIN new = (DOMAIN old) \cup {k}
    /\ new[k] = total
    /\ \A x \in (DOMAIN old) \ {k} : new[x] = old[x]

\* the mapping of the scenario: its only entry is
\* normalize_name("acmefarm") -> "Acme Industries"
ScenarioMapping ==
    LET k == normalize_name(AcmeFarmKey)
    IN  DOMAIN mapping = {k} /\ mapping[k] = AcmeIndustries

C2_InventoryRow ==
    (pc = "inventory_rows" /\ nread' = nread + 1) =>
        LET r == row'
            k == ClaimedBrand(r.vendor)
            totals == Get(inventory_data, k, <<0, 0>>)
        IN  /\ Accepted(r.vendor, r.qty, r.cost) =>
                  AddedUnder(inventory_data, inventory_data', k,
                             <<totals[1] + Float(r.cost), totals[2] + Float(r.qty)>>)
            /\ ~Accepted(r.vendor, r.qty, r.cost) => inventory_data' = inventory_data
            /\ (r.vendor = AcmeFarmLLC /\ Accepted(r.vendor, r.qty, r.cost) /\ ScenarioMapping) =>
                  /\ AcmeIndustries \in DOMAIN inventory_data'
                  /\ AcmeFarmLLC \notin DOMAIN inventory_data'

C2_SalesRow ==
    (pc = "sales_rows" /\ nread' = nread + 1) =>
        LET brand   == RowGet(cols.brand, row'.brand)
            qty     == RowGet(cols.qty, row'.qty)
            revenue == RowGet(cols.revenue, row'.revenue)
            k       == ClaimedBrand(brand)
        IN  /\ Accepted(brand, qty, revenue) =>
                  /\ AddedUnder(revenue_map, revenue_map', k,
                                Get(revenue_map, k, 0) + Float(revenue))
                  /\ AddedUnder(units_map, units_map', k,
                                Get(units_map, k, 0) + Float(qty))
            /\ ~Accepted(brand, qty, revenue) =>
                  /\ revenue_map' = revenue_map
                  /\ units_map' = units_map
            /\ (brand = AcmeFarmLLC /\ Accepted(brand, qty, revenue) /\ ScenarioMapping) =>
                  /\ AcmeIndustries \in DOMAIN revenue_map'
                  /\ AcmeFarmLLC \notin DOMAIN revenue_map'

\* C2: load_inventory, and load_sales alike, accumulates every row that has a
\* textual vendor v and valid numeric fields under mapping[normalize_name(v)]
\* when that key is in the mapping and under v itself otherwise; with the
\* mapping whose only entry is normalize_name("acmefarm") -> "Acme
\* Industries", a row of the vendor "Acme Farm LLC" goes under "Acme
\* Industries" and no entry "Acme Farm LLC" appears.
C2_CanonicalBrand == [][C2_InventoryRow /\ C2_SalesRow]_vars

\* Witness of C2: under the scenario's mapping the inventory loop has just
\* accumulated a row of "Acme Farm LLC" under "Acme Industries".
C2_Witness ==
    /\ pc = "inventory_rows"
    /\ ScenarioMapping
    /\ nread > 0
    /\ row.vendor = AcmeFarmLLC
    /\ Accepted(row.vendor, row.qty, row.cost)
    /\ DOMAIN inventory_data = {AcmeIndustries}

----------------------------------------------------------------------------
(* Claims about compute_metrics and build_json *)

Computed == pc \in {"json", "done"}

InUnitInterval(q) == RatLeq(Zero, q) /\ RatLeq(q, One)

UnitsReceived(b) == Get(inventory_data, b, <<0, 0>>)[2]

UnitsSold(b) == Get(units_map, b, 0)

\* C5: every brand's sell_through_pct lies in [0,1], and is 0 when the
\* brand's units sold and units received are both 0.
C5_SellThroughInUnitInterval ==
    Computed =>
        \A b \in DOMAIN brand_data :
            /\ InUnitInterval(brand_data[b].sell_through_pct)
            /\ (UnitsSold(b) = 0 /\ UnitsReceived(b) = 0) =>
                   brand_data[b].sell_through_pct = Zero

\* C6: every brand of the document has a revenue_share in [0,1].
C6_RevenueShareInUnitInterval ==
    pc = "done" =>
        \A i \in DOMAIN json_data.brands :
            InUnitInterval(json_data.brands[i].revenue_share)

CategoryTotal(b) == SumValues(Get(category_revenue, b, EmptyDict))

\* C7 as stated: the fractions of category_mix sum to 1 whenever the brand's
\* total category revenue is not zero, and category_mix is empty otherwise.
C7_MixSumsToOneWhenNonzero ==
    Computed =>
        \A b \in DOMAIN brand_data :
            IF CategoryTotal(b) # 0
            THEN RatSumValues(brand_data[b].category_mix) = One
            ELSE DOMAIN brand_data[b].category_mix = {}

\* C7 amended: the fractions of category_mix, one per category of the brand,
\* sum to 1 whenever the brand's total category revenue is greater than 0, and
\* category_mix is empty otherwise (no category revenue, or a total that is
\* zero or negative).
C7_MixSumsToOneWhenPositive ==
    Computed =>
        \A b \in DOMAIN brand_data :
            IF CategoryTotal(b) > 0
            THEN /\ DOMAIN brand_data[b].category_mix
                        = DOMAIN Get(category_revenue, b, EmptyDict)
                 /\ RatSumValues(brand_data[b].category_mix) = One
            ELSE DOMAIN brand_data[b].category_mix = {}

\* Witness of C7: a brand with two categories, one of them of negative
\* revenue, and a positive total.
C7_Witness ==
    /\ Computed
    /\ \E b \in DOMAIN brand_data :
           /\ CategoryTotal(b) > 0
           /\ Cardinality(DOMAIN brand_data[b].category_mix) = 2
           /\ \E c \in DOMAIN category_revenue[b] : category_revenue[b][c] < 0

InSales(b) == b \in (DOMAIN revenue_map) \cup (DOMAIN units_map)

InInventory(b) == b \in DOMAIN inventory_data

\* what C9 says of every brand but its sell-through
C9_RecordPerBrand ==
    /\ DOMAIN brand_data
           = (DOMAIN inventory_data) \cup (DOMAIN revenue_map) \cup (DOMAIN units_map)
    /\ \A b \in DOMAIN brand_data :
           /\ brand_data[b].brand = b
           /\ (InSales(b) /\ ~InInventory(b)) =>
                  /\ brand_data[b].avg_unit_cost = None
                  /\ brand_data[b].ppi_index = Zero
           /\ (InInventory(b) /\ ~InSales(b)) =>
                  /\ brand_data[b].revenue = 0
                  /\ brand_data[b].units = 0

----------------------------------------------------------------------------
(* SpecNorm: normalize_name applied to bounded text, then to its own result *)

MaxTokens == 2

Tokens ==
    {suffixes[i] : i \in 1..Len(suffixes)}
        \cup {<<"a">>, <<"s">>, <<" ">>, <<"-">>, <<".">>, <<",">>}

\* What a name may start with before its tokens.
Stems == {<<>>, <<"A">>, <<"s">>}

\* Every text made of at most n tokens.
RECURSIVE TextsUpTo(_)
TextsUpTo(n) ==
    IF n = 0 THEN {<<>>}
    ELSE LET shorter == TextsUpTo(n - 1)
         IN  shorter \cup {s \o t : s \in shorter, t \in Tokens}

Names == {stem \o s : stem \in Stems, s \in TextsUpTo(MaxTokens)} \cup {NaN}

InitNorm ==
    /\ npc = "input"
    /\ name \in Names
    /\ key = <<>>
    /\ key2 = <<>>
    /\ stripped = <<>>
    /\ pc = "idle"
    /\ mapping = EmptyDict
    /\ cols = None
    /\ row = None
    /\ nread = 0
    /\ inventory_data = EmptyDict
    /\ revenue_map = EmptyDict
    /\ units_map = EmptyDict
    /\ category_revenue = EmptyDict
    /\ brand_data = EmptyDict
    /\ json_data = None
    /\ sales_paths = <<>>

Normalize ==
    /\ npc = "input"
    /\ npc' = "normalized"
    /\ key' = normalize_name(name)
    /\ stripped' = IF IsStr(name) THEN SuffixLoop(Clean(name), 1, <<>>).stripped ELSE <<>>
    /\ UNCHANGED <<name, key2>>
    /\ UNCHANGED mainVars

Renormalize ==
    /\ npc = "normalized"
    /\ npc' = "renormalized"
    /\ key2' = normalize_name(key)
    /\ UNCHANGED <<name, key, stripped>>
    /\ UNCHANGED mainVars

NextNorm == Normalize \/ Renormalize

SpecNorm == InitNorm /\ [][NextNorm]_vars

----------------------------------------------------------------------------
(* Claims about normalize_name *)

\* C1: normalize_name is idempotent: normalize_name(normalize_name(x)) =
\* normalize_name(x) for every text x.
C1_Idempotent == npc = "renormalized" => key2 = key

\* C10 as stated: at most one legal-entity suffix is removed from a name.
C10_AtMostOneSuffix == npc # "input" => Len(stripped) <= 1

\* The suffixes with the indices of log, last removed first: the tail that
\* the loop took off the cleaned name.
RECURSIVE RemovedTail(_)
RemovedTail(log) ==
    IF log = <<>> THEN <<>>
    ELSE RemovedTail(Tail(log)) \o suffixes[Head(log)]

\* C10 amended: the loop makes one pass over the list in order; at each
\* suffix's turn the name (as shortened so far) loses that suffix if and only
\* if it ends with it, so several suffixes may go, each list entry at most
\* once and in list order; the single trailing "s" is stripped afterwards.
C10_OnePassOverList ==
    (npc # "input" /\ IsStr(name)) =>
        LET cleaned == Clean(name)
            tail    == RemovedTail(stripped)
            body    == DropLast(cleaned, Len(tail))
            \* the name when suffix j has its turn
            At(j)   == body \o RemovedTail(SelectSeq(stripped, LAMBDA i : i >= j))
        IN  /\ \A k \in 1..Len(stripped) : stripped[k] \in 1..Len(suffixes)
            /\ \A k \in 1..(Len(stripped) - 1) : stripped[k] < stripped[k + 1]
            /\ Len(tail) <= Len(cleaned)
            /\ cleaned = body \o tail
            /\ \A j \in 1..Len(suffixes) :
                   EndsWith(At(j), suffixes[j]) <=> (\E k \in 1..Len(stripped) : stripped[k] = j)
            /\ key = StripTrailingS(body)

\* Witness of C10: a name that lost two suffixes and then a trailing "s".
C10_Witness ==
    /\ npc = "normalized"
    /\ Len(stripped) = 2
    /\ Len(key) + Len(RemovedTail(stripped)) + 1 = Len(Clean(name))

----------------------------------------------------------------------------
(* SpecSales: load_sales applied to bounded lists of sources *)

MaxSources == 2

SalesCells(brand, category, qty, revenue) ==
    [brand |-> brand, category |-> category, qty |-> qty, revenue |-> revenue]

AcmeFlower == SalesCells(AcmeFarmLLC, Flower, Num(1), Num(2))

AcmeEdibleReturn == SalesCells(AcmeFarmLLC, Edible, Num(1), Num(-1))

BetaFlower == SalesCells(Beta, Flower, Num(-1), Num(2))

\* a row without a brand: the test of line 171 rejects it
NoBrandRow == SalesCells(NaN, Flower, Num(1), Num(2))

SalesRowLists ==
    {<<AcmeFlower>>, <<AcmeEdibleReturn>>, <<BetaFlower>>, <<NoBrandRow>>,
     <<AcmeFlower, AcmeEdibleReturn>>, <<AcmeEdibleReturn, BetaFlower>>,
     <<BetaFlower, AcmeFlower>>, <<NoBrandRow, AcmeFlower>>}

FullSalesHeader == <<H_BrandName, H_Category, H_QuantitySold, H_NetSales>>

\* a sheet with a number among its header cells: c.lower() raises on it
NumberLabelSalesFile ==
    File(TRUE, TRUE, <<H_BrandName, H_Category, NumberLabel, H_QuantitySold, H_NetSales>>,
         << AcmeFlower >>)

\* a sheet without a revenue column
NoRevenueSalesFile ==
    File(TRUE, TRUE, <<H_Brand, H_UnitsSold>>,
         << SalesCells(AcmeFarmLLC, NaN, Num(1), NaN) >>)

\* sheets without a category column
NoCategorySalesFiles ==
    {File(TRUE, TRUE, <<H_Brand, H_UnitsSold, H_Revenue>>, rows) :
        rows \in {<< SalesCells(AcmeIndustries, NaN, Num(1), Num(2)) >>,
                  << SalesCells(Beta, NaN, Num(1), Num(-1)),
                     SalesCells(AcmeFarmLLC, NaN, Num(-1), Num(2)) >>}}

SalesFiles ==
    {MissingFile, UnreadableFile, NumberLabelSalesFile, NoRevenueSalesFile}
        \cup NoCategorySalesFiles
        \cup {File(TRUE, TRUE, FullSalesHeader, rows) : rows \in SalesRowLists}

\* the lists of at most n sources
RECURSIVE PathLists(_)
PathLists(n) ==
    IF n = 0 THEN {<<>>}
    ELSE LET shorter == PathLists(n - 1)
         IN  shorter \cup {Append(l, f) : l \in shorter, f \in SalesFiles}

InitSales ==
    /\ npc = "idle"
    /\ name = <<>>
    /\ key = <<>>
    /\ key2 = <<>>
    /\ stripped = <<>>
    /\ pc = "sales"
    /\ mapping \in {load_vendor_mapping(MissingFile), AcmeMap}
    /\ cols = None
    /\ row = None
    /\ nread = 0
    /\ inventory_data = EmptyDict
    /\ revenue_map = EmptyDict
    /\ units_map = EmptyDict
    /\ category_revenue = EmptyDict
    /\ brand_data = EmptyDict
    /\ json_data = None
    /\ sales_paths \in PathLists(MaxSources)

\* line 290
LoadSales ==
    /\ pc = "sales"
    /\ LET agg == load_sales(sales_paths, mapping)
       IN  /\ revenue_map' = agg.revenue_map
           /\ units_map' = agg.units_map
           /\ category_revenue' = agg.category_revenue
    /\ pc' = "loaded"
    /\ UNCHANGED normVars
    /\ UNCHANGED <<mapping, cols, row, nread, inventory_data, brand_data, json_data,
                   sales_paths>>

NextSales == LoadSales

SpecSales == InitSales /\ [][NextSales]_vars

----------------------------------------------------------------------------
(* Claims about load_sales *)

SameDict(a, b) == DOMAIN a = DOMAIN b /\ \A k \in DOMAIN a : a[k] = b[k]

\* the three dicts that load_sales returned are those of agg
Returned(agg) ==
    /\ SameDict(revenue_map, agg.revenue_map)
    /\ SameDict(units_map, agg.units_map)
    /\ DOMAIN category_revenue = DOMAIN agg.category_revenue
    /\ \A b \in DOMAIN category_revenue :
           SameDict(category_revenue[b], agg.category_revenue[b])

Converts(src) == ~SourceFails(src)

\* C3: load_sales goes through the whole list whatever its sources do: a
\* source that does not exist or whose reading raises is skipped and
\* contributes nothing, and the others are converted as if they were the whole
\* list.
C3_FailingSourcesSkipped ==
    pc = "loaded" =>
        /\ Returned(load_sales(SelectSeq(sales_paths, Converts), mapping))
        /\ (\A i \in 1..Len(sales_paths) : SourceFails(sales_paths[i])) =>
               /\ DOMAIN revenue_map = {}
               /\ DOMAIN units_map = {}
               /\ DOMAIN category_revenue = {}

\* Witness of C3: a source whose reading raises, followed by a source whose
\* rows were aggregated.
C3_Witness ==
    /\ pc = "loaded"
    /\ Len(sales_paths) = 2
    /\ sales_paths[1].exists
    /\ SourceRaises(sales_paths[1])
    /\ Converts(sales_paths[2])
    /\ DOMAIN revenue_map # {}

Orders(n) ==
    {p \in [1..n -> 1..n] : \A i, j \in 1..n : p[i] = p[j] => i = j}

Permuted(paths, p) == [i \in 1..Len(paths) |-> paths[p[i]]]

\* the cell that the loop reads under column col
CellRead(col, cell) == IF col = None THEN NaN ELSE cell

\* the rows of src as the loop reads them
RowsRead(src) ==
    LET c == ResolveSales(src.columns)
    IN  [i \in 1..Len(src.rows) |->
            SalesCells(CellRead(c.brand, src.rows[i].brand),
                       CellRead(c.category, src.rows[i].category),
                       CellRead(c.qty, src.rows[i].qty),
                       CellRead(c.revenue, src.rows[i].revenue))]

RECURSIVE AllRowsRead(_, _)
AllRowsRead(paths, i) ==
    IF i > Len(paths) THEN <<>>
    ELSE RowsRead(paths[i]) \o AllRowsRead(paths, i + 1)

\* one sheet that holds the rows of all the sources
Concatenated(paths) == File(TRUE, TRUE, FullSalesHeader, AllRowsRead(paths, 1))

AllReadable(paths) == \A i \in 1..Len(paths) : Converts(paths[i])

====
